---- MODULE Spec2Model ----
(***************************************************************************)
(* A model of the streaming lexer of src/tokenize.rs: the line buffer      *)
(* BufReadIter (fill_buffer, next, expect_next, peek) and the tokenizer    *)
(* Tokens (next_res, ident, verbatim, Iterator::next).                     *)
(*                                                                         *)
(* Characters are one-character strings, a String is a sequence of them.   *)
(* Vec::get(i) is zero-based, TLA+ sequences are one-based: Get does the   *)
(* shift.  The source is the sequence of the bytes still unread; the two   *)
(* markers BAD and EIO stand for a byte that is not valid UTF-8 and for a  *)
(* point where the underlying read fails.                                  *)
(***************************************************************************)
EXTENDS Naturals, Sequences, FiniteSets, TLC

\* ------------------------------------------------------------------ bounds
\* Longest generated input, in pieces.
MaxPieces == 4
\* How many times end-of-stream is observed before the caller stops.
MaxIdle == 2

\* ------------------------------------------------------------ the alphabet
BSL == "\\"
NL == "\n"
BAD == "xFF"
EIO == "EIO"
NoChar == "none"

Markers == {BAD, EIO}

\* char::is_alphanumeric, on the characters of the model
Alnum == {"a", "b", "c", "v", "e", "r", "t", "i", "m"}

IsAlphanumeric(c) == c \in Alnum

\* the literal "verbatim" of next_res
VerbatimWord == <<"v", "e", "r", "b", "a", "t", "i", "m">>

\* ------------------------------------------------------------------ inputs
\* An input is a concatenation of at most MaxPieces pieces: a character, a
\* marker, or the command word with its backslash.
Pieces ==
    { <<BSL>>, <<"{">>, <<"}">>, <<"a">>, <<"!">>, <<NL>>, <<BAD>>, <<EIO>>,
      <<BSL>> \o VerbatimWord }

RECURSIVE Concats(_)
Concats(n) ==
    IF n = 0 THEN {<<>>}
    ELSE LET shorter == Concats(n - 1)
         IN shorter \cup {s \o p : s \in shorter, p \in Pieces}

\* the inputs of the unit tests of src/tokenize.rs
TestInputs ==
    { <<"{", "a", "b", "}">>,
      <<BSL, "a", "b", "c">>,
      <<BSL>> \o VerbatimWord \o <<"!", "a", BSL, "b", "!">>,
      <<BSL>> \o VerbatimWord \o <<"!", "a", BSL, "b">>,
      <<BSL>> \o VerbatimWord \o <<"!", "a", "!", "!", "b", "!">>,
      <<"a", BAD>> }

\* the sequences over S of length at most n
RECURSIVE SeqsUpTo(_, _)
SeqsUpTo(S, n) ==
    IF n = 0 THEN {<<>>}
    ELSE LET shorter == SeqsUpTo(S, n - 1)
         IN shorter \cup {Append(t, x) : t \in shorter, x \in S}

\* verbatim spans delimited by d whose text is made of d and one letter
SpansOf(d) ==
    {<<BSL>> \o VerbatimWord \o <<d>> \o t : t \in SeqsUpTo({d, "a"}, MaxPieces)}

Spans == SpansOf("!") \cup SpansOf(NL)

\* a span that does not start its line, followed by a read that fails
Replays == {<<"{">> \o t \o <<EIO>> : t \in Spans}

Inputs == Concats(MaxPieces) \cup Spans \cup Replays \cup TestInputs

\* ------------------------------------------------------------------- state
VARIABLES
    input,      \* the whole content of the source, fixed at construction
    src,        \* BufReadIter.input: what the source has not delivered yet
    vec_buf,    \* BufReadIter.vec_buf
    column,     \* BufReadIter.column
    line,       \* BufReadIter.line
    base,       \* offset in input of vec_buf[0] (history)
    reads,      \* how many times read_line was called on the source (history)
    seen,       \* offsets in input of the characters next() returned (history)
    out,        \* what Tokens::next returned, call by call (history)
    seenAt      \* Len(seen) at the end of each call (history)

vars == <<input, src, vec_buf, column, line, base, reads, seen, out, seenAt>>

\* the BufReadIter as one value
Buf == [src |-> src, vec_buf |-> vec_buf, column |-> column, line |-> line,
        base |-> base, reads |-> reads, seen |-> seen, total |-> Len(input)]

\* --------------------------------------------------------- results, tokens
Res(kind, text, l, c) == [kind |-> kind, text |-> text, line |-> l, column |-> c]

BeginGroup == Res("BeginGroup", <<>>, 0, 0)
EndGroup == Res("EndGroup", <<>>, 0, 0)
Char(c) == Res("Char", <<c>>, 0, 0)
Command(s) == Res("Command", s, 0, 0)
VerbatimTok(s) == Res("Verbatim", s, 0, 0)
NoToken == Res("None", <<>>, 0, 0)

EndOfInput == Res("EndOfInput", <<>>, 0, 0)
UnclosedVerbatim(l, c) == Res("UnclosedVerbatim", <<>>, l, c)
Unicode(l) == Res("Unicode", <<>>, l, 0)
Io(l) == Res("Io", <<>>, l, 0)

TokenKinds == {"BeginGroup", "EndGroup", "Char", "Command", "Verbatim"}
ErrorKinds == {"EndOfInput", "UnclosedVerbatim", "Unicode", "Io"}

IsToken(r) == r.kind \in TokenKinds
IsError(r) == r.kind \in ErrorKinds

\* ErrorKind::from_io
FromIo(err, l) == IF err = "InvalidData" THEN Unicode(l) ELSE Io(l)

\* ------------------------------------------------------------ BufReadIter
\* a value computed once and handed on to the step that uses it
Bind(Step(_), x) == CHOOSE r \in {Step(v) : v \in {x}} : TRUE

\* Vec::get
Get(v, i) == IF i < Len(v) THEN v[i + 1] ELSE NoChar

\* BufRead::read_line on the source: the bytes up to and including the first
\* newline are consumed; a failing read consumes up to the failure; bytes that
\* are not valid UTF-8 make the call fail with InvalidData.
RECURSIVE ReadLine(_, _, _)
ReadLine(s, acc, bad) ==
    IF s = <<>> THEN
        [err |-> IF bad THEN "InvalidData" ELSE "ok", data |-> acc, rest |-> s]
    ELSE IF Head(s) = EIO THEN
        [err |-> "Other", data |-> acc, rest |-> Tail(s)]
    ELSE IF Head(s) = NL THEN
        [err |-> IF bad THEN "InvalidData" ELSE "ok",
         data |-> Append(acc, NL), rest |-> Tail(s)]
    ELSE ReadLine(Tail(s), Append(acc, Head(s)), bad \/ Head(s) = BAD)

\* fill_buffer with the column counted from one: the first character of every
\* line is skipped
FillWith_ColumnOne(b, rl) ==
    IF rl.err = "ok"
    THEN [b |-> [b EXCEPT !.column = 1, !.line = b.line + 1, !.src = rl.rest,
                          !.reads = b.reads + 1,
                          !.vec_buf = rl.data, !.base = b.total - Len(b.src)],
          err |-> NoToken]
    ELSE [b |-> [b EXCEPT !.column = 1, !.line = b.line + 1, !.src = rl.rest,
                          !.reads = b.reads + 1],
          err |-> FromIo(rl.err, b.line + 1)]

\* fill_buffer naming in its error the line count from before the read
FillWith_LineBefore(b, rl) ==
    IF rl.err = "ok"
    THEN [b |-> [b EXCEPT !.column = 0, !.line = b.line + 1, !.src = rl.rest,
                          !.reads = b.reads + 1,
                          !.vec_buf = rl.data, !.base = b.total - Len(b.src)],
          err |-> NoToken]
    ELSE [b |-> [b EXCEPT !.column = 0, !.line = b.line + 1, !.src = rl.rest,
                          !.reads = b.reads + 1],
          err |-> FromIo(rl.err, b.line)]

\* fill_buffer over a source that does not move past a failed read: the same
\* failure is met by every later read
FillWith_StuckSource(b, rl) ==
    IF rl.err = "ok"
    THEN [b |-> [b EXCEPT !.column = 0, !.line = b.line + 1, !.src = rl.rest,
                          !.reads = b.reads + 1,
                          !.vec_buf = rl.data, !.base = b.total - Len(b.src)],
          err |-> NoToken]
    ELSE [b |-> [b EXCEPT !.column = 0, !.line = b.line + 1,
                          !.reads = b.reads + 1],
          err |-> FromIo(rl.err, b.line + 1)]

\* fill_buffer counting only the lines that were read well
FillWith_LineOnSuccess(b, rl) ==
    IF rl.err = "ok"
    THEN [b |-> [b EXCEPT !.column = 0, !.line = b.line + 1, !.src = rl.rest,
                          !.reads = b.reads + 1,
                          !.vec_buf = rl.data, !.base = b.total - Len(b.src)],
          err |-> NoToken]
    ELSE [b |-> [b EXCEPT !.column = 0, !.src = rl.rest,
                          !.reads = b.reads + 1],
          err |-> FromIo(rl.err, b.line + 1)]

\* fill_buffer, given what read_line returned: the column and the line are set
\* before the read, vec_buf is replaced only when the read succeeded
FillWith(b, rl) ==
    IF rl.err = "ok"
    THEN [b |-> [b EXCEPT !.column = 0, !.line = b.line + 1, !.src = rl.rest,
                          !.reads = b.reads + 1,
                          !.vec_buf = rl.data, !.base = b.total - Len(b.src)],
          err |-> NoToken]
    ELSE [b |-> [b EXCEPT !.column = 0, !.line = b.line + 1, !.src = rl.rest,
                          !.reads = b.reads + 1],
          err |-> FromIo(rl.err, b.line + 1)]

\* BufReadIter::fill_buffer
FillBuffer(b) == Bind(LAMBDA rl : FillWith(b, rl), ReadLine(b.src, <<>>, FALSE))

\* what a call of the line buffer returns: the buffer after it, the character
\* (NoChar for Ok(None)) and the error (NoToken for Ok)
Ret(b, c, err) ==
    [b |-> IF c = NoChar THEN b
           ELSE [b EXCEPT !.seen = Append(b.seen, b.base + b.column)],
     c |-> c, err |-> err]

\* next without the second lookup: a refill is answered with Ok(None)
AfterFill_NoRelookup(f) == Ret(f.b, NoChar, f.err)

\* next looking up, after the refill, the character after the cursor
AfterFill_LookAhead(f) ==
    IF IsError(f.err) THEN Ret(f.b, NoChar, f.err)
    ELSE Ret(f.b, Get(f.b.vec_buf, f.b.column + 1), NoToken)

\* the None arm of next: the result of fill_buffer mapped to the lookup
AfterFill(f) ==
    IF IsError(f.err) THEN Ret(f.b, NoChar, f.err)
    ELSE Ret(f.b, Get(f.b.vec_buf, f.b.column), NoToken)

\* BufReadIter::next
BufNext(b) ==
    IF Get(b.vec_buf, b.column + 1) # NoChar
    THEN Ret([b EXCEPT !.column = b.column + 1],
             Get(b.vec_buf, b.column + 1), NoToken)
    ELSE Bind(AfterFill, FillBuffer([b EXCEPT !.column = b.column + 1]))

\* expect_next passing end-of-stream on as if it were a character
ExpectOf_NoCheck(n) == n

\* the ok_or of expect_next, on what next returned
ExpectOf(n) ==
    IF IsError(n.err) THEN n
    ELSE IF n.c = NoChar THEN [n EXCEPT !.err = EndOfInput]
    ELSE n

\* BufReadIter::expect_next
ExpectNext(b) == Bind(ExpectOf, BufNext(b))

\* peek looking at the character under the cursor instead of the one after it
Peek_Current(b) == Get(b.vec_buf, b.column)

\* peek looking into the next line of the source at the end of the line
Peek_AcrossLines(b) ==
    IF Get(b.vec_buf, b.column + 1) # NoChar THEN Get(b.vec_buf, b.column + 1)
    ELSE IF b.src # <<>> /\ Head(b.src) \notin Markers THEN Head(b.src)
    ELSE NoChar

\* BufReadIter::peek
Peek(b) == Get(b.vec_buf, b.column + 1)

\* ----------------------------------------------------------------- Tokens
\* a panic of the process (the unwrap of ident), recorded as a result
Panic == Res("Panic", <<>>, 0, 0)

RECURSIVE IdentLoop(_, _)

\* the body of the loop of ident: unwrap what next returned, push c
IdentPush(n, c, command) ==
    IF IsError(n.err) THEN [b |-> n.b, command |-> command, err |-> Panic]
    ELSE IdentLoop(n.b, Append(command, c))

\* Tokens::ident: the loop, with the command read so far
IdentLoop(b, command) ==
    IF Peek(b) # NoChar /\ IsAlphanumeric(Peek(b))
    THEN Bind(LAMBDA n : IdentPush(n, Peek(b), command), BufNext(b))
    ELSE [b |-> b, command |-> command, err |-> NoToken]

\* ident without its loop: the command is its first character
Ident_FirstOnly(b, first) == [b |-> b, command |-> <<first>>, err |-> NoToken]

\* Tokens::ident
Ident(b, first) == IdentLoop(b, <<first>>)

RECURSIVE VerbatimLoop(_, _, _, _, _)

\* the arm of verbatim for a doubled delimiter: the second one is consumed
VerbatimDoubled(n2, delimiter, start_line, start_column, verb) ==
    IF IsError(n2.err) THEN [b |-> n2.b, verb |-> verb, err |-> n2.err]
    ELSE VerbatimLoop(n2.b, delimiter, start_line, start_column,
                      Append(verb, delimiter))

\* the match of verbatim on what next returned
VerbatimMatch(n, delimiter, start_line, start_column, verb) ==
    IF IsError(n.err) THEN [b |-> n.b, verb |-> verb, err |-> n.err]
    ELSE IF n.c = NoChar THEN
        [b |-> n.b, verb |-> verb,
         err |-> UnclosedVerbatim(start_line, start_column)]
    ELSE IF n.c = delimiter THEN
        IF Peek(n.b) = delimiter
        THEN Bind(LAMBDA n2 : VerbatimDoubled(n2, delimiter, start_line,
                                              start_column, verb),
                  BufNext(n.b))
        ELSE [b |-> n.b, verb |-> verb, err |-> NoToken]
    ELSE VerbatimLoop(n.b, delimiter, start_line, start_column, Append(verb, n.c))

\* Tokens::verbatim: the loop, with the string read so far
VerbatimLoop(b, delimiter, start_line, start_column, verb) ==
    Bind(LAMBDA n : VerbatimMatch(n, delimiter, start_line, start_column, verb),
         BufNext(b))

\* Tokens::verbatim
Verbatim(b, delimiter, start_line, start_column) ==
    VerbatimLoop(b, delimiter, start_line, start_column, <<>>)

\* next_res wrapping what verbatim returned
VerbatimResult(v) ==
    IF IsError(v.err) THEN [b |-> v.b, r |-> v.err]
    ELSE [b |-> v.b, r |-> VerbatimTok(v.verb)]

\* the start of the span taken as a column counted from one
Delimited_OneBased(d) ==
    IF IsError(d.err) THEN [b |-> d.b, r |-> d.err]
    ELSE Bind(VerbatimResult, Verbatim(d.b, d.c, d.b.line, d.b.column + 1))

\* next_res after the word verbatim: d is what expect_next returned for the
\* delimiter; the line and the column are read after it
Delimited(d) ==
    IF IsError(d.err) THEN [b |-> d.b, r |-> d.err]
    ELSE Bind(VerbatimResult, Verbatim(d.b, d.c, d.b.line, d.b.column))

\* next_res on the identifier that ident returned
Commanded(id) ==
    IF id.err = Panic THEN [b |-> id.b, r |-> Panic]
    ELSE IF id.command = VerbatimWord THEN Bind(Delimited, ExpectNext(id.b))
    ELSE [b |-> id.b, r |-> Command(id.command)]

\* the arm of next_res for an alphanumeric character after a backslash
CommandArm(b, c) == Bind(Commanded, Ident(b, c))

\* the match without the self-escapes: every character that is not
\* alphanumeric names a command
Escaped_NoSelfEscape(e) ==
    IF IsError(e.err) THEN [b |-> e.b, r |-> e.err]
    ELSE IF IsAlphanumeric(e.c) THEN CommandArm(e.b, e.c)
    ELSE [b |-> e.b, r |-> Command(<<e.c>>)]

\* the match of next_res on the character after a backslash
Escaped(e) ==
    IF IsError(e.err) THEN [b |-> e.b, r |-> e.err]
    ELSE IF e.c \in {BSL, "{", "}"} THEN [b |-> e.b, r |-> Char(e.c)]
    ELSE IF IsAlphanumeric(e.c) THEN CommandArm(e.b, e.c)
    ELSE [b |-> e.b, r |-> Command(<<e.c>>)]

\* the arm of next_res for a backslash
EscapeArm(b) == Bind(Escaped, ExpectNext(b))

\* the match of next_res on what next returned
Dispatch(n) ==
    IF IsError(n.err) THEN [b |-> n.b, r |-> n.err]
    ELSE IF n.c = "{" THEN [b |-> n.b, r |-> BeginGroup]
    ELSE IF n.c = "}" THEN [b |-> n.b, r |-> EndGroup]
    ELSE IF n.c = BSL THEN EscapeArm(n.b)
    ELSE IF n.c # NoChar THEN [b |-> n.b, r |-> Char(n.c)]
    ELSE [b |-> n.b, r |-> NoToken]

\* Tokens::next_res, and Iterator::next which maps Ok(None) to None,
\* Ok(Some(t)) to Some(Ok(t)) and Err(e) to Some(Err(e))
NextRes(b) == Bind(Dispatch, BufNext(b))

\* ----------------------------------------------------------- specification
\* Tokens::new over a source holding one of the inputs
Init ==
    /\ input \in Inputs
    /\ src = input
    /\ vec_buf = <<>>
    /\ column = 0
    /\ line = 0
    /\ base = 0
    /\ reads = 0
    /\ seen = <<>>
    /\ out = <<>>
    /\ seenAt = <<>>

Idle == Cardinality({i \in 1..Len(out) : out[i] = NoToken})

\* one call of Iterator::next by the caller
TokensNext ==
    /\ Idle < MaxIdle
    /\ \E n \in {NextRes(Buf)} :
          /\ src' = n.b.src
          /\ vec_buf' = n.b.vec_buf
          /\ column' = n.b.column
          /\ line' = n.b.line
          /\ base' = n.b.base
          /\ reads' = n.b.reads
          /\ seen' = n.b.seen
          /\ out' = Append(out, n.r)
          /\ seenAt' = Append(seenAt, Len(n.b.seen))
    /\ UNCHANGED input

Next == TokensNext

Spec == Init /\ [][Next]_vars

\* Tokens::new: the stream is built over a reader; here it starts over the
\* empty reader and takes its input before anything was read
Unread == input = <<>> /\ reads = 0

TokensNew ==
    /\ Unread
    /\ input' \in Inputs
    /\ src' = input'
    /\ UNCHANGED <<vec_buf, column, line, base, reads, seen, out, seenAt>>

InitNew ==
    /\ input = <<>>
    /\ src = input
    /\ vec_buf = <<>>
    /\ column = 0
    /\ line = 0
    /\ base = 0
    /\ reads = 0
    /\ seen = <<>>
    /\ out = <<>>
    /\ seenAt = <<>>

NextNew == TokensNew \/ TokensNext

\* the caller keeps calling next: a call that can be made is eventually made
FairSpec == InitNew /\ [][NextNew]_vars /\ WF_vars(TokensNext)

\* ------------------------------------------------- views used by the claims
\* what is left of the current line after the cursor
BufRest == SubSeq(vec_buf, column + 2, Len(vec_buf))

\* the characters still ahead of the cursor, current line first
Pending == BufRest \o src

\* the line the next call of BufReadIter::next is served from, if it can be read
Ahead ==
    IF BufRest # <<>> THEN BufRest
    ELSE LET rl == ReadLine(src, <<>>, FALSE)
         IN IF rl.err = "ok" THEN rl.data ELSE <<>>

Clean(s) == \A i \in 1..Len(s) : s[i] \notin Markers

Last(s) == s[Len(s)]

\* the caller has seen end-of-stream
Exhausted == \E i \in 1..Len(out) : out[i] = NoToken

\* the token of a character that is neither a backslash nor part of a command
TokOf(c) == IF c = "{" THEN BeginGroup ELSE IF c = "}" THEN EndGroup ELSE Char(c)

\* the unit tests of src/tokenize.rs (simple, command, verbatim,
\* verbatim_unclosed, verbatim_escape, invalid_unicode), on the model
Collected ==
    LET stop == CHOOSE i \in 1..Len(out) : ~IsToken(out[i])
                    /\ \A j \in 1..(i - 1) : IsToken(out[j])
    IN SubSeq(out, 1, stop)

Halted == \E i \in 1..Len(out) : ~IsToken(out[i])

UnitTests ==
    Halted =>
      /\ input = <<"{", "a", "b", "}">> =>
           Collected = <<BeginGroup, Char("a"), Char("b"), EndGroup, NoToken>>
      /\ input = <<BSL, "a", "b", "c">> =>
           Collected = <<Command(<<"a", "b", "c">>), NoToken>>
      /\ input = <<BSL>> \o VerbatimWord \o <<"!", "a", BSL, "b", "!">> =>
           Collected = <<VerbatimTok(<<"a", BSL, "b">>), NoToken>>
      /\ input = <<BSL>> \o VerbatimWord \o <<"!", "a", BSL, "b">> =>
           Collected = <<UnclosedVerbatim(1, 9)>>
      /\ input = <<BSL>> \o VerbatimWord \o <<"!", "a", "!", "!", "b", "!">> =>
           Collected = <<VerbatimTok(<<"a", "!", "b">>), NoToken>>
      /\ input = <<"a", BAD>> => Collected = <<Unicode(1)>>

\* ------------------------------------------------------------------ claims
\* C1: an input without backslash whose reads all succeed gives one token per
\* character, in order, nothing lost or repeated: '{' BeginGroup, '}' EndGroup,
\* any other character c Char(c); after them only end-of-stream.
C1_OneTokenPerChar ==
    (Clean(input) /\ \A i \in 1..Len(input) : input[i] # BSL) =>
        /\ \A i \in 1..Len(out) :
              out[i] = IF i <= Len(input) THEN TokOf(input[i]) ELSE NoToken
        /\ seen = [i \in 1..Len(seen) |-> i - 1]
        /\ Exhausted => Len(out) > Len(input)

\* a run over several lines with a group character has reached end-of-stream
C1_Witness ==
    /\ Clean(input) /\ \A i \in 1..Len(input) : input[i] # BSL
    /\ Len(input) >= 4
    /\ \E i \in 1..(Len(input) - 1) : input[i] = NL
    /\ \E i \in 1..Len(input) : input[i] = "}"
    /\ Exhausted

\* the longest prefix of s made of alphanumeric characters
RECURSIVE AlnumRun(_)
AlnumRun(s) ==
    IF s # <<>> /\ Head(s) \in Alnum THEN <<Head(s)>> \o AlnumRun(Tail(s)) ELSE <<>>

\* s without its first n elements
Drop(s, n) == SubSeq(s, n + 1, Len(s))

\* C2: a backslash followed by an alphanumeric character yields one Command
\* whose name is the maximal alphanumeric run on that line (unless the run is
\* the word verbatim); the character after the run is not consumed and the
\* next token starts at it.
C2_CommandRun ==
    [][ LET run == AlnumRun(Tail(Ahead))
        IN (/\ Len(Ahead) >= 2
            /\ Ahead[1] = BSL
            /\ Ahead[2] \in Alnum
            /\ run # VerbatimWord)
           => /\ out' = Append(out, Command(run))
              /\ Pending' = Drop(Pending, 1 + Len(run))
              /\ Len(seen') = Len(seen) + 1 + Len(run) ]_vars

\* a command of several characters was followed by the token of the character
\* that ended its run
C2_Witness ==
    \E i \in 1..(Len(out) - 1) :
        /\ out[i].kind = "Command"
        /\ Len(out[i].text) >= 2
        /\ out[i + 1] = Char("!")

\* A verbatim span read off the text t that follows its opening delimiter d:
\* a delimiter followed by a delimiter is one literal delimiter, any other
\* delimiter closes.  With sameLine, two delimiters count as doubled only when
\* they are on one line, and a line ends with its newline.
RECURSIVE SpanOf(_, _, _)
SpanOf(t, d, sameLine) ==
    IF t = <<>> THEN [closed |-> FALSE, content |-> <<>>, rest |-> <<>>]
    ELSE IF Head(t) = d THEN
        IF Len(t) >= 2 /\ t[2] = d /\ (sameLine => d # NL)
        THEN LET r == SpanOf(Drop(t, 2), d, sameLine)
             IN [r EXCEPT !.content = <<d>> \o r.content]
        ELSE [closed |-> TRUE, content |-> <<>>, rest |-> Tail(t)]
    ELSE LET r == SpanOf(Tail(t), d, sameLine)
         IN [r EXCEPT !.content = <<Head(t)>> \o r.content]

\* the cursor is in front of \verbatim and a delimiter, and every read succeeds
AtVerbatim ==
    /\ Len(Pending) >= 10
    /\ SubSeq(Pending, 1, 9) = <<BSL>> \o VerbatimWord
    /\ Pending[10] \notin Alnum
    /\ Clean(Pending)

\* the call made in front of a closed span yields exactly its Verbatim token
\* and leaves the cursor right after the closing delimiter
VerbatimYields(sameLine) ==
    LET span == SpanOf(Drop(Pending, 10), Pending[10], sameLine)
    IN (AtVerbatim /\ span.closed)
       => /\ out' = Append(out, VerbatimTok(span.content))
          /\ Pending' = span.rest

\* C3 as stated: every doubled delimiter 'dd' of the text between the
\* delimiters is one literal d, wherever the two characters are.
C3_AnyDoubling == [][VerbatimYields(FALSE)]_vars

\* C3, amended: \verbatim, d, content, closing d yields one Verbatim token with
\* the content between the delimiters, every 'dd' that is on one line replaced
\* by d and anything else copied; a delimiter that ends its line closes the
\* span, so a newline delimiter cannot be doubled.  The next token starts
\* right after the closing delimiter.
C3_VerbatimContent == [][VerbatimYields(TRUE)]_vars

\* a span with a doubled delimiter inside was closed
C3_Witness ==
    \E i \in 1..Len(out) :
        /\ out[i] = VerbatimTok(<<"a", "!", "b">>)
        /\ Pending = <<>>

\* where the opening delimiter of the span in front of the cursor is
SpanStart ==
    IF BufRest # <<>> THEN [line |-> line, column |-> column + 10]
    ELSE [line |-> line + 1, column |-> 9]

\* C4: when the stream ends inside a verbatim span the call fails with
\* UnclosedVerbatim(line, column), the position of the line buffer right after
\* the opening delimiter was consumed, whatever was consumed after it.
C4_UnclosedStart ==
    [][ (AtVerbatim /\ ~SpanOf(Drop(Pending, 10), Pending[10], TRUE).closed)
        => /\ out' = Append(out, UnclosedVerbatim(SpanStart.line, SpanStart.column))
           /\ Pending' = <<>> ]_vars

\* an unclosed span that started on the second line and ran over a line end
C4_Witness ==
    /\ out # <<>>
    /\ Last(out) = UnclosedVerbatim(2, 9)
    /\ line >= 4

\* the one-based number of the line of the source that holds input[i]: a line
\* ends with its newline, or where the read fails
LineOf(i) == 1 + Cardinality({j \in 1..(i - 1) : input[j] \in {NL, EIO}})

\* what reading line k of the source gives: the error, or NoToken
ErrOfLine(k) ==
    LET chars == {input[i] : i \in {j \in 1..Len(input) : LineOf(j) = k}}
    IN IF EIO \in chars THEN Io(k)
       ELSE IF BAD \in chars THEN Unicode(k)
       ELSE NoToken

\* the errors of the lines the source has delivered so far, in order
ErrorsRead ==
    LET n == Len(input) - Len(src)
        got(k) == \E i \in 1..n : LineOf(i) = k
    IN SelectSeq([k \in 1..Len(input) |-> IF got(k) THEN ErrOfLine(k) ELSE NoToken],
                 IsError)

IsReadError(r) == r.kind \in {"Unicode", "Io"}

\* C5: when reading the k-th line of the source fails, the call that made the
\* read fails with Unicode(k) for invalid UTF-8 and Io(k) for any other
\* failure, and no character of the failing line is ever returned.
C5_ReadErrorLine ==
    /\ SelectSeq(out, IsReadError) = ErrorsRead
    /\ \A j \in 1..Len(seen) : ErrOfLine(LineOf(seen[j] + 1)) = NoToken

\* both kinds of read failure were reported, one of them for a line after
\* the first, after a token was yielded
C5_Witness ==
    /\ \E i \in 1..Len(out) : out[i].kind = "Unicode" /\ out[i].line >= 2
    /\ \E i \in 1..Len(out) : out[i].kind = "Io"
    /\ \E i \in 1..Len(out) : IsToken(out[i])

\* C6: once next has returned an error, no later call yields a token.
C6_ErrorIsTerminal ==
    \A i \in 1..Len(out) : \A j \in (i + 1)..Len(out) :
        IsError(out[i]) => ~IsToken(out[j])

\* C7: once next has returned end-of-stream, every later call returns
\* end-of-stream: no token and no error.
C7_ExhaustedStays ==
    \A i \in 1..Len(out) : \A j \in (i + 1)..Len(out) :
        out[i] = NoToken => out[j] = NoToken

\* end-of-stream was returned twice, after tokens and an error
C7_Witness ==
    /\ Len(out) >= 4
    /\ out[Len(out)] = NoToken
    /\ out[Len(out) - 1] = NoToken
    /\ \E i \in 1..Len(out) : IsToken(out[i])
    /\ \E i \in 1..Len(out) : IsError(out[i])

\* how many characters the line buffer had returned before call k
SeenBefore(k) == IF k = 1 THEN 0 ELSE seenAt[k - 1]

\* C8: when a call fails after it consumed characters for a token, no later
\* call returns a character of an input position consumed before the error.
C8_NoReEmit ==
    \A k \in 1..Len(out) :
        (IsError(out[k]) /\ seenAt[k] > SeenBefore(k)) =>
            \A i \in 1..seenAt[k] : \A j \in (seenAt[k] + 1)..Len(seen) :
                seen[j] # seen[i]

\* expect_next and next agree on b: the same buffer afterwards, EndOfInput
\* exactly for end-of-stream, otherwise the same character or error
Agree(n, e) ==
    /\ e.b = n.b
    /\ e.c = n.c
    /\ (e.err = EndOfInput) <=> (n.err = NoToken /\ n.c = NoChar)
    /\ e.err # EndOfInput => e.err = n.err

ExpectAgrees(b) == Agree(BufNext(b), ExpectNext(b))

\* C9: when the stream ends right after an unescaped backslash, or right after
\* the command word verbatim, next fails with EndOfInput and yields no token
\* for the partial input; expect_next returns EndOfInput exactly when next
\* would return end-of-stream and otherwise the same character.
C9_EndOfInput ==
    /\ [](ExpectAgrees(Buf) /\ ExpectAgrees(BufNext(Buf).b))
    /\ [][ (Pending = <<BSL>> \/ Pending = <<BSL>> \o VerbatimWord)
           => /\ out' = Append(out, EndOfInput)
              /\ Pending' = <<>> ]_vars

\* the stream ended right after the command word, on a later line and after
\* other results
C9_Witness ==
    /\ out # <<>>
    /\ Last(out) = EndOfInput
    /\ Len(out) >= 3
    /\ Len(input) >= 10
    /\ line >= 3
    /\ seen # <<>>
    /\ input[Last(seen) + 1] = "m"

\* C10: a backslash followed by a backslash, '{' or '}' yields Char of that
\* character; a backslash followed by any other character c that is not
\* alphanumeric, a newline included, yields Command named c alone; either way
\* exactly two characters are consumed.
C10_EscapeOrSymbol ==
    [][ (/\ Len(Ahead) >= 2
         /\ Ahead[1] = BSL
         /\ Ahead[2] \notin Alnum)
        => /\ out' = Append(out, IF Ahead[2] \in {BSL, "{", "}"}
                                 THEN Char(Ahead[2])
                                 ELSE Command(<<Ahead[2]>>))
           /\ Pending' = Drop(Pending, 2)
           /\ seen' = seen \o <<Last(seen') - 1, Last(seen')>> ]_vars

\* an escaped brace and a command named by a newline were both yielded
C10_Witness ==
    /\ \E i \in 1..Len(out) : out[i] = Command(<<NL>>)
    /\ \E i \in 1..Len(out) : out[i] = Char("}")

\* the text a token stands for: BeginGroup '{', EndGroup '}', Char(c) the
\* character c, behind a backslash when c is a backslash or a brace,
\* Command(name) the name behind a backslash
RenderTok(t) ==
    IF t.kind = "BeginGroup" THEN <<"{">>
    ELSE IF t.kind = "EndGroup" THEN <<"}">>
    ELSE IF t.kind = "Char" THEN
        IF t.text[1] \in {BSL, "{", "}"} THEN <<BSL>> \o t.text ELSE t.text
    ELSE <<BSL>> \o t.text

\* the renderings of the tokens ts, concatenated
RECURSIVE Render(_)
Render(ts) == IF ts = <<>> THEN <<>> ELSE RenderTok(Head(ts)) \o Render(Tail(ts))

\* no error and no Verbatim token among the results so far
Plain == \A i \in 1..Len(out) : ~IsError(out[i]) /\ out[i].kind # "Verbatim"

\* C11: for an input that tokenizes without error and without Verbatim token,
\* the renderings of the tokens, concatenated in order, are the input.
C11_RoundTrip ==
    Plain =>
        /\ Render(SelectSeq(out, IsToken)) = SubSeq(input, 1, Len(input) - Len(Pending))
        /\ Exhausted => Render(SelectSeq(out, IsToken)) = input

\* an input with an escaped brace and a command was tokenized to its end
C11_Witness ==
    /\ Plain
    /\ Exhausted
    /\ \E i \in 1..Len(out) : out[i] = Char("{")
    /\ \E i \in 1..Len(out) : out[i].kind = "Command"

\* what is left for the line buffer to deliver: the unread source first, the
\* rest of the line in vec_buf second
Measure == Len(src) * (Len(input) + 2) + Len(BufRest)

\* C13: every call of next ends, and it either returns end-of-stream or leaves
\* strictly less for the line buffer to deliver than it found (the loops of
\* ident and verbatim consume a character or stop); a caller that keeps
\* calling eventually gets end-of-stream, so the token sequence is finite.
C13_Finite ==
    /\ [][out' # out => (Last(out').kind = "None" \/ Measure' < Measure)]_vars
    /\ <>Exhausted

\* end-of-stream was returned after a verbatim span with content was captured
C13_Witness ==
    /\ Exhausted
    /\ \E i \in 1..Len(out) : out[i].kind = "Verbatim" /\ out[i].text # <<>>

\* ------------------------------------------------- the line buffer by itself
\* BufReadIter used directly: calls of next, expect_next and peek in any order.
\* out holds what the last call returned, seenAt the characters returned so far.
BufChars == {"a", "{", NL, BAD, EIO}

BufInputs == SeqsUpTo(BufChars, MaxPieces)

InitBuf ==
    /\ input \in BufInputs
    /\ src = input
    /\ vec_buf = <<>>
    /\ column = 0
    /\ line = 0
    /\ base = 0
    /\ reads = 0
    /\ seen = <<>>
    /\ out = <<>>
    /\ seenAt = <<>>

\* results of the calls on the line buffer
Some(c) == Res("Some", <<c>>, 0, 0)
PeekSome(c) == Res("PeekSome", <<c>>, 0, 0)
PeekNone == Res("PeekNone", <<>>, 0, 0)

\* what next and expect_next returned, as a result
Returned(n) ==
    IF IsError(n.err) THEN n.err ELSE IF n.c = NoChar THEN NoToken ELSE Some(n.c)

\* the lines the source holds: terminated ones and an unterminated last one
LinesIn ==
    Cardinality({j \in 1..Len(input) : input[j] \in {NL, EIO}})
    + (IF input # <<>> /\ Last(input) \notin {NL, EIO} THEN 1 ELSE 0)

\* the caller goes on for MaxIdle reads past the end of the source
MayRead == BufRest # <<>> \/ reads < LinesIn + MaxIdle

Called(n) ==
    /\ src' = n.b.src
    /\ vec_buf' = n.b.vec_buf
    /\ column' = n.b.column
    /\ line' = n.b.line
    /\ base' = n.b.base
    /\ reads' = n.b.reads
    /\ seen' = n.b.seen
    /\ out' = <<Returned(n)>>
    /\ seenAt' = <<Len(n.b.seen)>>
    /\ UNCHANGED input

\* one call of BufReadIter::next
Advance == MayRead /\ \E n \in {BufNext(Buf)} : Called(n)

\* one call of BufReadIter::expect_next
ExpectAdvance == MayRead /\ \E n \in {ExpectNext(Buf)} : Called(n)

\* peek moving the cursor to the character it returns
PeekCall_Advance(b) ==
    [b |-> IF Peek(b) = NoChar THEN b ELSE [b EXCEPT !.column = b.column + 1],
     c |-> Peek(b)]

\* a call of peek: the buffer after it and the character
PeekCall(b) == [b |-> b, c |-> Peek(b)]

\* one call of BufReadIter::peek
PeekStep ==
    \E p \in {PeekCall(Buf)} :
        /\ src' = p.b.src
        /\ vec_buf' = p.b.vec_buf
        /\ column' = p.b.column
        /\ line' = p.b.line
        /\ base' = p.b.base
        /\ reads' = p.b.reads
        /\ seen' = p.b.seen
        /\ out' = <<IF p.c = NoChar THEN PeekNone ELSE PeekSome(p.c)>>
        /\ seenAt' = <<Len(p.b.seen)>>
        /\ UNCHANGED input

\* one call of Tokens::ident, on the alphanumeric character that the last call
\* of the line buffer returned
IdentStep ==
    /\ out # <<>> /\ out[1].kind = "Some" /\ IsAlphanumeric(out[1].text[1])
    /\ \E id \in {Ident(Buf, out[1].text[1])} :
          /\ src' = id.b.src
          /\ vec_buf' = id.b.vec_buf
          /\ column' = id.b.column
          /\ line' = id.b.line
          /\ base' = id.b.base
          /\ reads' = id.b.reads
          /\ seen' = id.b.seen
          /\ out' = <<IF id.err = Panic THEN Panic ELSE Command(id.command)>>
          /\ seenAt' = <<Len(id.b.seen)>>
          /\ UNCHANGED input

NextBuf == Advance \/ ExpectAdvance \/ PeekStep \/ IdentStep

SpecBuf == InitBuf /\ [][NextBuf]_vars

\* the line of the input held in vec_buf: from offset base to its newline
\* (nothing before the first successful read, nothing after an empty read)
CurLine ==
    IF vec_buf = <<>> THEN <<>>
    ELSE LET ends == {j \in (base + 1)..Len(input) : input[j] = NL}
             last == IF ends = {} THEN Len(input)
                     ELSE CHOOSE j \in ends : \A k \in ends : j <= k
         IN SubSeq(input, base + 1, last)

IsPeek(r) == r.kind \in {"PeekSome", "PeekNone"}

\* C14: peek returns the character after the cursor on the current line, or
\* None when the cursor is on the last character of the line or beyond it, even
\* when the source holds more lines; the column, the line counter, the line
\* buffer and the source are unchanged and nothing is read.
C14_PeekFrame ==
    [][(out' # <<>> /\ IsPeek(out'[1])) =>
          /\ UNCHANGED <<input, src, vec_buf, column, line, base, reads, seen>>
          /\ out'[1] = IF column + 1 < Len(CurLine)
                        THEN PeekSome(CurLine[column + 2]) ELSE PeekNone]_vars

\* peek returned None on the last character of a line while the source holds
\* more lines
C14_Witness ==
    /\ out = <<PeekNone>>
    /\ vec_buf # <<>>
    /\ column + 1 = Len(vec_buf)
    /\ src # <<>>

\* ------------------------------------------------ spans closed at a line end
\* the index of the first newline of t
FirstNL(t) == CHOOSE k \in 1..Len(t) : t[k] = NL /\ \A j \in 1..(k - 1) : t[j] # NL

HasNL(t) == \E k \in 1..Len(t) : t[k] = NL

\* the input is a span opened by a newline that is followed by two newlines
\* or more, and the call after the span has been made
TwoAfter ==
    /\ input \in SpansOf(NL)
    /\ Len(input) >= 12
    /\ input[11] = NL /\ input[12] = NL
    /\ Len(out) >= 2

\* C15: in a verbatim span whose delimiter is the newline, every delimiter is
\* the last character of its line: the first one after the opening delimiter
\* closes the span although the next line starts with the delimiter too, the
\* content is the text before it, and the first character of the next line
\* is the start of the next token.
C15_LineEndCloses ==
    /\ [][(AtVerbatim /\ Pending[10] = NL /\ HasNL(Drop(Pending, 10))) =>
            /\ Last(out') = VerbatimTok(SubSeq(Drop(Pending, 10), 1,
                                               FirstNL(Drop(Pending, 10)) - 1))
            /\ Pending' = Drop(Pending, 10 + FirstNL(Drop(Pending, 10)))]_vars
    /\ [](TwoAfter => out[1] = VerbatimTok(<<>>) /\ out[2] = Char(NL))

\* a span delimited by newlines was closed by a newline that another newline
\* follows, and that one became a token of its own
C15_Witness ==
    /\ TwoAfter
    /\ out[1].kind = "Verbatim"
    /\ out[2] = Char(NL)

\* ------------------------------------------------------- the line counter
\* how many lines of the input the source has handed out
LinesTaken ==
    Cardinality({j \in 1..(Len(input) - Len(src)) : input[j] \in {NL, EIO}})

\* C16: the line counter is the number of read_line calls made so far, failed
\* ones included, and 0 before the first call; while the source is not at its
\* end that is the number of lines taken from it. A call that refills leaves
\* the column at 0, and the character it returns is the first one of the line
\* it read.
C16_LineCountsReads ==
    /\ [](line = reads)
    /\ [](reads = 0 => out = <<>> \/ IsPeek(out[1]))
    /\ [](src # <<>> => line = LinesTaken)
    /\ [][reads' # reads =>
            /\ reads' = reads + 1
            /\ column' = 0
            /\ out'[1].kind = "Some" =>
                    out'[1].text = <<input[Len(input) - Len(src) + 1]>>]_vars

\* the second line was read after a read that failed, and its first character
\* was returned
C16_Witness ==
    /\ reads = 2
    /\ \E j \in 1..(Len(input) - Len(src)) : input[j] = EIO
    /\ out # <<>> /\ out[1].kind = "Some"
    /\ column = 0

\* ------------------------------------------------------- reads on demand
\* a read is made by next or expect_next only, once, and only when the buffered
\* line has no character after the cursor
ReadOnDemand ==
    reads' # reads =>
        /\ ~IsPeek(out'[1])
        /\ reads' = reads + 1
        /\ column + 1 >= Len(vec_buf)

\* every character of the line read last has been returned
LastLineReturned ==
    \A j \in 1..(Len(input) - Len(src)) :
        (LineOf(j) = reads /\ input[j] \notin Markers) =>
            \E i \in 1..Len(seen) : seen[i] = j - 1

\* C17: read_line is called only from advance, at most once per call and
\* only when the current line has no character at the advanced position, so
\* line k+1 is never read before every character of line k was returned.
C17_ReadInOrder ==
    [][ReadOnDemand /\ (reads' # reads => LastLineReturned)]_vars

\* --------------------------------------------------- peek and then advance
IsAdvance(r) == r.kind \notin {"PeekSome", "PeekNone", "Command", "Panic"}

\* C18: when peek has returned Some(c), the call of next or expect_next made
\* right after it returns Ok(Some(c)) and reads nothing from the source, so
\* the unwrap in the loop of ident never panics, whatever was called before.
C18_PeekThenAdvance ==
    /\ [][(out # <<>> /\ out[1].kind = "PeekSome" /\ IsAdvance(out'[1])) =>
            /\ out' = <<Some(out[1].text[1])>>
            /\ reads' = reads]_vars
    /\ [](out # <<>> => out[1] # Panic)

\* ident took two characters or more through peek and next, after a read of
\* the source had failed
C18_Witness ==
    /\ out # <<>> /\ out[1].kind = "Command" /\ Len(out[1].text) >= 2
    /\ \E j \in 1..(Len(input) - Len(src)) : input[j] \in Markers

\* ------------------------------------------------- the position reported
\* the positions of the input that make up its line k
LinePositions(k) == {j \in 1..Len(input) : LineOf(j) = k}

\* the character at zero-based index c of line k of the input, if there is one
CharAt(k, c) ==
    IF \E j \in LinePositions(k) :
            Cardinality({i \in LinePositions(k) : i < j}) = c
    THEN input[CHOOSE j \in LinePositions(k) :
                    Cardinality({i \in LinePositions(k) : i < j}) = c]
    ELSE NoChar

\* no read of the source has failed
NoFailedRead == \A j \in 1..(Len(input) - Len(src)) : input[j] \notin Markers

\* C19: while no read has failed, after every call of next or expect_next that
\* returns a character, and after ident, line() and column() are the 1-based
\* line and the zero-based index in that line of the character returned last.
C19_PositionOfLast ==
    [][(NoFailedRead' /\ out' # out /\ out'[1].kind \in {"Some", "Command"}) =>
          Last(out'[1].text) = CharAt(line', column')]_vars

\* a character that is neither on the first line nor first on its line was
\* returned
C19_Witness ==
    /\ NoFailedRead
    /\ out # <<>> /\ out[1].kind = "Some"
    /\ line = 2 /\ column = 1

\* ------------------------------------------- the position of an open span
\* the position in the input of the i-th character that call k consumed
Consumed(k, i) == seen[SeenBefore(k) + i] + 1

\* C20: the delimiter of a verbatim span is not alphanumeric and lies on the
\* line of its \verbatim command, so UnclosedVerbatim carries the line of the
\* command in the input and the zero-based index of the opening delimiter in
\* that line.
C20_UnclosedPosition ==
    \A k \in 1..Len(out) :
        out[k].kind = "UnclosedVerbatim" =>
            /\ input[Consumed(k, 10)] \notin Alnum
            /\ LineOf(Consumed(k, 10)) = LineOf(Consumed(k, 1))
            /\ out[k].line = LineOf(Consumed(k, 1))
            /\ out[k].column =
                  Cardinality({i \in LinePositions(LineOf(Consumed(k, 10))) :
                                  i < Consumed(k, 10)})

====
